---- MODULE Spec2Model ----
(***************************************************************************)
(* Model of scripts/garmin_sync.py: a run-to-completion job that loads     *)
(* OAuth tokens, opens one PostgreSQL connection and runs three sync       *)
(* passes (activities, sleep, stress), each upserting rows keyed by a      *)
(* natural identifier and committing at the end of the pass.               *)
(*                                                                         *)
(* Conventions.                                                            *)
(*  - A raw (JSON / attribute) value is a record [t, n, s]: t is its       *)
(*    Python type ("absent" key, "null" = None, "num", "str"), n the       *)
(*    number, s the string as a tuple of one-character strings.            *)
(*  - Raw numbers of the activity list are fixed-point with one decimal    *)
(*    (n = tenths), so int() is a real truncation.                         *)
(*  - The km distance, a float rounded to 2 decimals, is held as an        *)
(*    integer number of hundredths of a km.                                *)
(*  - cursor.execute is modelled as succeeding for every row the code      *)
(*    maps: the table schema is not part of the repository.                *)
(***************************************************************************)
EXTENDS Integers, Sequences, FiniteSets, TLC

\* ------------------------------------------------------------- bounds
MaxRuns == 2
MaxBatch == 2
MaxDays == 2

\* ------------------------------------------------------------- raw values
Absent == [t |-> "absent", n |-> 0, s |-> <<>>]
Null == [t |-> "null", n |-> 0, s |-> <<>>]
Str(chars) == [t |-> "str", n |-> 0, s |-> chars]
\* the number whole.tenth
Num(whole, tenth) == [t |-> "num", n |-> whole * 10 + tenth, s |-> <<>>]

DigitChars == <<"0", "1", "2", "3", "4", "5", "6", "7", "8", "9">>

\* str(int): the decimal digits of n >= 0, no padding
RECURSIVE Digits(_)
Digits(n) ==
    IF n < 10 THEN <<DigitChars[n + 1]>>
    ELSE Append(Digits(n \div 10), DigitChars[(n % 10) + 1])

\* format spec ":02d": at least two digits, zero-padded on the left
Pad2(n) == IF n < 10 THEN <<"0">> \o Digits(n) ELSE Digits(n)

\* s.split(sep)[0]: the part of s before the first occurrence of sep
RECURSIVE SplitFirst(_, _)
SplitFirst(s, sep) ==
    IF s = <<>> \/ Head(s) = sep THEN <<>>
    ELSE <<Head(s)>> \o SplitFirst(Tail(s), sep)

Contains(s, ch) == \E i \in 1..Len(s) : s[i] = ch

\* str(x) of a raw value that is a string or None
PyStr(v) == IF v.t = "null" THEN <<"N", "o", "n", "e">> ELSE v.s

\* Python truthiness of a raw value, as used by "x or 0"
Truthy(v) ==
    CASE v.t = "num" -> v.n # 0
      [] v.t = "str" -> v.s # <<>>
      [] OTHER -> FALSE

\* int(x) of a raw number: truncation (the numbers modelled are >= 0)
PyInt(v) == v.n \div 10

\* ------------------------------------------------------------- floats
\* round(x / 1000, 2) of a raw number of metres x (n = tenths of a metre), in
\* hundredths of a km.  A value exactly halfway between two hundredths has no
\* exact double: Python rounds the double nearest to x / 1000, which lies just
\* above or just below the halfway point.  HalfwayRoundsUp lists, among the
\* halfway inputs of DistanceInputs, those whose double lies above.
HalfwayRoundsUp == {50, 250, 421950}

RoundKm(n) ==
    LET q == n \div 100
        r == n % 100
    IN  IF r > 50 \/ (r = 50 /\ n \in HalfwayRoundsUp) THEN q + 1 ELSE q

\* floor(duration / distance) of the double quotient, distance = hk / 100 km.
\* The double quotient differs from the exact one by a relative error near
\* 2^-53, so its floor is the exact floor unless the exact quotient is an
\* integer and the double falls just below it.  QuotientBelow lists those
\* pairs <<duration, hk>> among DurationInputs x DistanceInputs.
QuotientBelow == {<<7, 7>>, <<21, 7>>, <<12600, 7>>}

PaceSec(duration, hk) ==
    IF <<duration, hk>> \in QuotientBelow
    THEN ((100 * duration) \div hk) - 1
    ELSE (100 * duration) \div hk

\* the pace string with the seconds formatted without the ":02d" padding
PaceNoPad(duration, hk) ==
    IF hk > 0
    THEN LET pace_sec == PaceSec(duration, hk)
         IN  Digits(pace_sec \div 60) \o <<":">> \o Digits(pace_sec % 60)
                 \o <<"/", "k", "m">>
    ELSE <<"0", ":", "0", "0", "/", "k", "m">>

\* lines 58-62: the pace string
Pace(duration, hk) ==
    IF hk > 0
    THEN LET pace_sec == PaceSec(duration, hk)
         IN  Digits(pace_sec \div 60) \o <<":">> \o Pad2(pace_sec % 60)
                 \o <<"/", "k", "m">>
    ELSE <<"0", ":", "0", "0", "/", "k", "m">>

\* ------------------------------------------------------------- activities
RunningKey == Str(<<"r", "u", "n", "n", "i", "n", "g">>)

\* line 51: act.get('activityType', {}).get('typeKey') raises AttributeError
\* when the activityType value is present and is not a mapping (None, a string)
TypeKeyRaises(act) == act.activityType.t \in {"null", "str"}

\* a type filter that ignores the case of the first letter
IsRunningAnyCase(act) ==
    /\ act.activityType.t = "map"
    /\ act.activityType.typeKey.t = "str"
    /\ act.activityType.typeKey.s \in
           {RunningKey.s, <<"R", "u", "n", "n", "i", "n", "g">>}

\* line 51: the type filter, an exact comparison with 'running'
IsRunning(act) ==
    /\ act.activityType.t = "map"
    /\ act.activityType.typeKey = RunningKey

\* int(x or 0), lines 70-73: absent (default 0), None and 0 give 0
IntOrZero(v) == IF Truthy(v) THEN PyInt(v) ELSE 0

\* lines 53-73: the exception the mapping of one record raises, "none" if none
MapActivityExc(act) ==
    CASE act.activityId.t = "absent" -> "KeyError"
      [] act.activityId.t # "absent" /\ act.distance.t \in {"null", "str"} ->
             "TypeError"
      [] act.activityId.t # "absent" /\ act.distance.t \in {"absent", "num"}
             /\ act.duration.t = "null" -> "TypeError"
      [] act.activityId.t # "absent" /\ act.distance.t \in {"absent", "num"}
             /\ act.duration.t = "str" -> "ValueError"
      [] OTHER ->
             IF \E f \in {"calories", "elevationGain", "averageHR", "maxHR"} :
                    act[f].t = "str" /\ Truthy(act[f])
             THEN "ValueError"
             ELSE "none"

\* line 64: act.get('startTimeLocal', act.get('startTimeGMT', ''))
StartTime(act) ==
    IF act.startTimeLocal.t # "absent" THEN act.startTimeLocal
    ELSE IF act.startTimeGMT.t # "absent" THEN act.startTimeGMT
    ELSE Str(<<>>)

\* lines 65-68
DateOf(start_time) ==
    IF Contains(PyStr(start_time), "T")
    THEN SplitFirst(PyStr(start_time), "T")
    ELSE SplitFirst(PyStr(start_time), " ")

\* lines 53-73 and the VALUES list of lines 76-77, 82: the row of a record
\* whose mapping raises nothing
MapActivity(act) ==
    LET distance == IF act.distance.t = "absent" THEN 0
                    ELSE RoundKm(act.distance.n)
        duration == IF act.duration.t = "absent" THEN 0
                    ELSE PyInt(act.duration)
    IN  [id |-> act.activityId.n,
         source |-> "garmin",
         name |-> IF act.activityName.t = "absent"
                  THEN Str(<<"R", "u", "n">>) ELSE act.activityName,
         activity_type |-> "run",
         date |-> DateOf(StartTime(act)),
         distance |-> distance,
         duration |-> duration,
         pace |-> Pace(duration, distance),
         calories |-> IntOrZero(act.calories),
         elevation |-> IntOrZero(act.elevationGain),
         avg_hr |-> IntOrZero(act.averageHR),
         max_hr |-> IntOrZero(act.maxHR),
         updated_at |-> "default"]

\* an INSERT with no conflict clause on a table with no key
InsertOnly(tbl, row) == tbl \cup {row}

\* lines 75-82: INSERT ... ON CONFLICT (id) DO UPDATE SET the listed columns.
\* updated_at is left to the column default on insert and is NOW() on update
\* (the clock is not modelled: "now" marks a row the job updated); source, activity_type and date are not in the SET list.
UpsertActivity(tbl, row) ==
    IF \E r \in tbl : r.id = row.id
    THEN {IF r.id = row.id
          THEN [r EXCEPT !.name = row.name, !.distance = row.distance,
                         !.duration = row.duration, !.pace = row.pace,
                         !.calories = row.calories,
                         !.elevation = row.elevation,
                         !.avg_hr = row.avg_hr, !.max_hr = row.max_hr,
                         !.updated_at = "now"]
          ELSE r : r \in tbl}
    ELSE tbl \cup {row}

\* ------------------------------------------------------------- sleep, stress
\* date.strftime('%Y-%m-%d') of a date <<year, month, day>>
Strftime(d) == Digits(d[1]) \o <<"-">> \o Pad2(d[2]) \o <<"-">> \o Pad2(d[3])

\* x or 0 of an optional integer attribute (n is the integer)
OrZero(v) == IF v.t = "num" /\ v.n # 0 THEN v.n ELSE 0

\* lines 108-109: s.calendar_date.strftime raises AttributeError on None, and
\* so does sleep.daily_sleep_dto.calendar_date when the DTO is None
MapSleepRaises(sleep) == sleep.daily_sleep_dto.t = "null" \/ sleep.calendar_date.t = "null"

\* lines 108-116, 125
MapSleep(sleep) ==
    [date |-> Strftime(sleep.calendar_date.d),
     total_sleep |-> OrZero(sleep.sleep_time_seconds),
     deep_sleep |-> OrZero(sleep.deep_sleep_seconds),
     light_sleep |-> OrZero(sleep.light_sleep_seconds),
     rem_sleep |-> OrZero(sleep.rem_sleep_seconds),
     awake |-> OrZero(sleep.awake_sleep_seconds),
     score |-> 0]

\* lines 118-125 and 155-160: INSERT ... ON CONFLICT (date) DO UPDATE SET every
\* other column
UpsertByDate(tbl, row) ==
    IF \E r \in tbl : r.date = row.date
    THEN {IF r.date = row.date THEN row ELSE r : r \in tbl}
    ELSE tbl \cup {row}

\* line 151
MapStressRaises(stress) == stress.calendar_date.t = "null"

\* lines 151-153, 160
MapStress(stress) ==
    [date |-> Strftime(stress.calendar_date.d),
     avg_stress |-> OrZero(stress.avg_stress_level),
     max_stress |-> OrZero(stress.max_stress_level)]

\* ------------------------------------------------------------- inputs
\* Sequences over S of length at most n: the lists a fetch may return
SeqsUpTo(S, n) == UNION {[1..k -> S] : k \in 0..n}

EnvValues == {"unset", "empty", "value"}

\* a or b on environment values (line 16)
EnvOr(a, b) == IF a = "value" THEN a ELSE b

TimeT1 == Str(<<"2", "0", "2", "4", "-", "0", "5", "-", "0", "1", "T", "0", "7", ":", "3", "0", ":", "0", "0">>)
TimeS2 == Str(<<"2", "0", "2", "4", "-", "0", "5", "-", "0", "2", " ", "1", "8", ":", "0", "0", ":", "0", "0">>)
NameEasy == Str(<<"E", "a", "s", "y">>)
NameLong == Str(<<"L", "o", "n", "g">>)
TypeMap(key) == [t |-> "map", typeKey |-> key]
NoTypeValue(tag) == [t |-> tag, typeKey |-> Absent]
\* an integer JSON number: n is the integer itself
Id(k) == [t |-> "num", n |-> k, s |-> <<>>]

BaseActivity(k) ==
    [activityType |-> TypeMap(RunningKey), activityId |-> Id(k),
     activityName |-> NameEasy, distance |-> Num(10000, 0),
     duration |-> Num(3000, 0), startTimeLocal |-> TimeT1,
     startTimeGMT |-> Absent, calories |-> Num(500, 0),
     elevationGain |-> Num(120, 4), averageHR |-> Num(150, 0),
     maxHR |-> Num(171, 0)]

\* the same activity fetched again with every field edited
EditedActivity(k) ==
    [activityType |-> TypeMap(RunningKey), activityId |-> Id(k),
     activityName |-> NameLong, distance |-> Num(5234, 5),
     duration |-> Num(1570, 3), startTimeLocal |-> Absent,
     startTimeGMT |-> TimeS2, calories |-> Null,
     elevationGain |-> Absent, averageHR |-> Num(141, 0),
     maxHR |-> Num(160, 0)]

\* the activity records of the job specification
JobActivities ==
    {BaseActivity(1), EditedActivity(1), BaseActivity(2),
     [EditedActivity(1) EXCEPT !.activityType = TypeMap(Str(<<"c", "y", "c", "l", "i", "n", "g">>))],
     [EditedActivity(2) EXCEPT !.activityType = TypeMap(Str(<<"R", "u", "n", "n", "i", "n", "g">>))],
     [EditedActivity(1) EXCEPT !.activityType = TypeMap(Absent)],
     [EditedActivity(2) EXCEPT !.activityType = NoTypeValue("absent")],
     [BaseActivity(2) EXCEPT !.activityType = NoTypeValue("null")],
     [BaseActivity(1) EXCEPT !.activityId = Absent],
     [BaseActivity(2) EXCEPT !.distance = Null]}

Day1 == [t |-> "date", d |-> <<2024, 5, 1>>]
Day2 == [t |-> "date", d |-> <<2024, 11, 12>>]
NoDate == [t |-> "null", d |-> <<0, 0, 0>>]
Dto == [t |-> "obj"]
NoDto == [t |-> "null"]

SleepOf(day, total, deep) ==
    [daily_sleep_dto |-> Dto, calendar_date |-> day,
     sleep_time_seconds |-> total, deep_sleep_seconds |-> deep,
     light_sleep_seconds |-> Id(14000), rem_sleep_seconds |-> Id(5000),
     awake_sleep_seconds |-> Null]

JobSleep ==
    {SleepOf(Day1, Id(27000), Id(6000)), SleepOf(Day1, Id(25200), Null),
     SleepOf(Day2, Null, Null), SleepOf(NoDate, Id(27000), Id(6000)),
     [SleepOf(Day2, Id(27000), Id(6000)) EXCEPT !.daily_sleep_dto = NoDto]}

StressOf(day, avg, max) ==
    [calendar_date |-> day, avg_stress_level |-> avg, max_stress_level |-> max]

JobStress ==
    {StressOf(Day1, Id(31), Id(88)), StressOf(Day1, Id(40), Null),
     StressOf(Day2, Null, Id(95)), StressOf(NoDate, Id(31), Id(88))}

\* ------------------------------------------------------------- state
VARIABLES
    OAUTH1_TOKEN,   \* module globals, lines 16-18
    OAUTH2_TOKEN,
    DATABASE_URL,
    pc,             \* the statement of main the process is at
    exit_code,      \* the process exit status, -1 while it runs
    run,            \* the number of this invocation of the job
    feed,           \* which endpoints of the service hold data (see Pools)
    events,         \* the external steps this invocation performed, in order
    db,             \* the committed tables
    txn,            \* the tables as the connection's open transaction sees them
    remote,         \* the day records the service holds for the requested window
    batch,          \* the list the pass fetched
    idx,            \* the position of the pass's loop in batch
    count,          \* the pass's count
    outcome,        \* per pass, how its fetch ended
    synced          \* the counts the passes returned to main, -1 before

vars ==
    <<OAUTH1_TOKEN, OAUTH2_TOKEN, DATABASE_URL, pc, exit_code, run, feed,
      events, db, txn, remote, batch, idx, count, outcome, synced>>

\* What the service holds.  The three passes write disjoint tables, so the job
\* is explored with varied activity records and no day records, and with
\* varied day records and no activity records, rather than with their product.
ActivitiesPool == IF feed = "activities" THEN JobActivities ELSE {}
SleepPool == IF feed = "days" THEN JobSleep ELSE {}
StressPool == IF feed = "days" THEN JobStress ELSE {}

EmptyTables == [activities |-> {}, sleep |-> {}, stress |-> {}]
NoOutcome == [activities |-> "none", sleep |-> "none", stress |-> "none"]
NoCounts == [activities |-> -1, sleep |-> -1, stress |-> -1]

\* process start: the module-level reads of the environment, lines 16-18
ProcessStart ==
    /\ \E o1 \in EnvValues, o2 \in EnvValues, d \in EnvValues,
          p \in EnvValues :
           /\ OAUTH1_TOKEN' = o1
           /\ OAUTH2_TOKEN' = o2
           /\ DATABASE_URL' = EnvOr(d, p)
    /\ pc' = "main"
    /\ exit_code' = -1
    /\ events' = <<>>
    /\ remote' = <<>>
    /\ batch' = <<>>
    /\ idx' = 1
    /\ count' = 0
    /\ outcome' = NoOutcome
    /\ synced' = NoCounts

Init ==
    /\ OAUTH1_TOKEN \in EnvValues
    /\ OAUTH2_TOKEN \in EnvValues
    /\ DATABASE_URL \in {EnvOr(d, p) : d \in EnvValues, p \in EnvValues}
    /\ pc = "main"
    /\ exit_code = -1
    /\ run = 1
    /\ feed \in {"activities", "days"}
    /\ events = <<>>
    /\ db = EmptyTables
    /\ txn = EmptyTables
    /\ remote = <<>>
    /\ batch = <<>>
    /\ idx = 1
    /\ count = 0
    /\ outcome = NoOutcome
    /\ synced = NoCounts

\* exit(1): the process ends; the server rolls back what was not committed
Exit1 ==
    /\ pc' = "exited"
    /\ exit_code' = 1
    /\ txn' = db

\* a validation that leaves out the check of line 182
TokensOnlyMissing == OAUTH1_TOKEN # "value" \/ OAUTH2_TOKEN # "value"

\* lines 178 and 182: not OAUTH1_TOKEN or not OAUTH2_TOKEN; not DATABASE_URL
ConfigMissing ==
    \/ OAUTH1_TOKEN # "value" \/ OAUTH2_TOKEN # "value"
    \/ DATABASE_URL # "value"

\* lines 174-184
MainValidate ==
    /\ pc = "main"
    /\ IF ConfigMissing
       THEN Exit1
       ELSE /\ pc' = "setup_garth"
            /\ UNCHANGED <<exit_code, txn>>
    /\ UNCHANGED <<OAUTH1_TOKEN, OAUTH2_TOKEN, DATABASE_URL, run, feed, events,
                   db, remote, batch, idx, count, outcome, synced>>

\* lines 20-33 and 187, 206-210: the token files are written, then garth.resume
\* authenticates; an OSError of the writes or an error of resume reaches the
\* handler of main
SetupGarth ==
    /\ pc = "setup_garth"
    /\ \E result \in {"ok", "OSError", "resume_error"} :
           CASE result = "ok" ->
                    /\ events' = events \o <<"write_tokens", "resume">>
                    /\ pc' = "get_db_connection"
                    /\ UNCHANGED <<exit_code, txn>>
             [] result = "OSError" ->
                    /\ events' = events
                    /\ Exit1
             [] result = "resume_error" ->
                    /\ events' = events \o <<"write_tokens", "resume">>
                    /\ Exit1
    /\ UNCHANGED <<OAUTH1_TOKEN, OAUTH2_TOKEN, DATABASE_URL, run, feed, db,
                   remote, batch, idx, count, outcome, synced>>

\* lines 35-38 and 189-191: DATABASE_URL.replace raises on None; connect may fail
GetDbConnection ==
    /\ pc = "get_db_connection"
    /\ \E result \in {"ok", "OperationalError"} :
           IF result = "ok" /\ DATABASE_URL # "unset"
           THEN /\ events' = Append(events, "connect")
                /\ txn' = db
                /\ pc' = "sync_activities"
                /\ UNCHANGED exit_code
           ELSE /\ events' = events
                /\ Exit1
    /\ UNCHANGED <<OAUTH1_TOKEN, OAUTH2_TOKEN, DATABASE_URL, run, feed, db,
                   remote, batch, idx, count, outcome, synced>>

\* ------------------------------------------------------------- activities pass
PassUnchanged ==
    UNCHANGED <<OAUTH1_TOKEN, OAUTH2_TOKEN, DATABASE_URL, run, feed>>

\* lines 40-48 and 89-93: the cursor, the count and the one request of the
\* pass.  A GarthHTTPError is caught by the pass, which returns 0; any other
\* exception of the request leaves the pass and reaches the handler of main.
ActivitiesFetch ==
    /\ pc = "sync_activities"
    /\ events' = Append(events, "activities")
    /\ count' = 0
    /\ idx' = 1
    /\ \E result \in {"ok", "GarthHTTPError", "OtherError"} :
           /\ outcome' = [outcome EXCEPT !.activities = result]
           /\ CASE result = "ok" ->
                       /\ \E b \in SeqsUpTo(ActivitiesPool, MaxBatch) :
                              /\ batch' = b
                              /\ pc' = IF b = <<>> THEN "activities_commit"
                                       ELSE "activities_loop"
                       /\ UNCHANGED <<exit_code, txn, synced>>
                [] result = "GarthHTTPError" ->
                       /\ batch' = <<>>
                       /\ synced' = [synced EXCEPT !.activities = 0]
                       /\ pc' = "sync_sleep"
                       /\ UNCHANGED <<exit_code, txn>>
                [] result = "OtherError" ->
                       /\ batch' = <<>>
                       /\ Exit1
                       /\ UNCHANGED synced
    /\ UNCHANGED <<db, remote>>
    /\ PassUnchanged

\* lines 50-86, one iteration.  The type lookup of line 51 is outside the
\* per-record try: its AttributeError is no GarthHTTPError, leaves the pass
\* and reaches the handler of main.  An exception of lines 53-84 is caught
\* and the record skipped.
ActivitiesRecord ==
    /\ pc = "activities_loop"
    /\ LET act == batch[idx]
       IN  IF TypeKeyRaises(act)
           THEN /\ Exit1
                /\ UNCHANGED <<idx, count>>
           ELSE /\ IF IsRunning(act) /\ MapActivityExc(act) = "none"
                   THEN /\ txn' = [txn EXCEPT !.activities =
                                       UpsertActivity(@, MapActivity(act))]
                        /\ count' = count + 1
                   ELSE UNCHANGED <<txn, count>>
                /\ idx' = idx + 1
                /\ pc' = IF idx = Len(batch) THEN "activities_commit"
                         ELSE "activities_loop"
                /\ UNCHANGED exit_code
    /\ UNCHANGED <<events, db, remote, batch, outcome, synced>>
    /\ PassUnchanged

\* lines 88, 92-93
ActivitiesCommit ==
    /\ pc = "activities_commit"
    /\ db' = txn
    /\ synced' = [synced EXCEPT !.activities = count]
    /\ batch' = <<>>
    /\ idx' = 1
    /\ pc' = "sync_sleep"
    /\ UNCHANGED <<exit_code, events, txn, remote, count, outcome>>
    /\ PassUnchanged

\* ------------------------------------------------------------- sleep pass
\* a sleep pass that lets the exception of its fetch reach main
SleepFetchFailedFatal ==
    /\ Exit1
    /\ UNCHANGED synced

\* lines 132-136: whatever the fetch raises is caught by the pass, which
\* prints it and returns its count, still 0
SleepFetchFailed ==
    /\ synced' = [synced EXCEPT !.sleep = 0]
    /\ pc' = "sync_stress"
    /\ UNCHANGED <<exit_code, txn>>

\* lines 95-104: SleepData.list is one call for the whole window: it returns
\* the list of the days or raises
SleepFetch ==
    /\ pc = "sync_sleep"
    /\ events' = Append(events, "sleep")
    /\ count' = 0
    /\ idx' = 1
    /\ \E data \in SeqsUpTo(SleepPool, MaxDays), result \in {"ok", "error"} :
           /\ remote' = data
           /\ outcome' = [outcome EXCEPT !.sleep = result]
           /\ IF result = "ok"
              THEN /\ batch' = data
                   /\ pc' = IF data = <<>> THEN "sleep_commit" ELSE "sleep_loop"
                   /\ UNCHANGED <<exit_code, txn, synced>>
              ELSE /\ batch' = <<>>
                   /\ SleepFetchFailed
    /\ UNCHANGED db
    /\ PassUnchanged

\* lines 106-129, one iteration
SleepRecord ==
    /\ pc = "sleep_loop"
    /\ LET sleep == batch[idx]
       IN  IF MapSleepRaises(sleep)
           THEN UNCHANGED <<txn, count>>
           ELSE /\ txn' = [txn EXCEPT !.sleep = UpsertByDate(@, MapSleep(sleep))]
                /\ count' = count + 1
    /\ idx' = idx + 1
    /\ pc' = IF idx = Len(batch) THEN "sleep_commit" ELSE "sleep_loop"
    /\ UNCHANGED <<exit_code, events, db, remote, batch, outcome, synced>>
    /\ PassUnchanged

\* lines 131, 135-136
SleepCommit ==
    /\ pc = "sleep_commit"
    /\ db' = txn
    /\ synced' = [synced EXCEPT !.sleep = count]
    /\ batch' = <<>>
    /\ remote' = <<>>
    /\ idx' = 1
    /\ pc' = "sync_stress"
    /\ UNCHANGED <<exit_code, events, txn, count, outcome>>
    /\ PassUnchanged

\* ------------------------------------------------------------- stress pass
\* lines 138-147 and 167-171: DailyStress.list returns the list or raises; the
\* pass catches whatever it raises and returns 0
StressFetch ==
    /\ pc = "sync_stress"
    /\ events' = Append(events, "stress")
    /\ count' = 0
    /\ idx' = 1
    /\ \E data \in SeqsUpTo(StressPool, MaxDays), result \in {"ok", "error"} :
           /\ remote' = data
           /\ outcome' = [outcome EXCEPT !.stress = result]
           /\ IF result = "ok"
              THEN /\ batch' = data
                   /\ pc' = IF data = <<>> THEN "stress_commit"
                            ELSE "stress_loop"
                   /\ UNCHANGED synced
              ELSE /\ batch' = <<>>
                   /\ synced' = [synced EXCEPT !.stress = 0]
                   /\ pc' = "close"
    /\ UNCHANGED <<exit_code, db, txn>>
    /\ PassUnchanged

\* lines 149-164, one iteration
StressRecord ==
    /\ pc = "stress_loop"
    /\ LET stress == batch[idx]
       IN  IF MapStressRaises(stress)
           THEN UNCHANGED <<txn, count>>
           ELSE /\ txn' = [txn EXCEPT !.stress =
                               UpsertByDate(@, MapStress(stress))]
                /\ count' = count + 1
    /\ idx' = idx + 1
    /\ pc' = IF idx = Len(batch) THEN "stress_commit" ELSE "stress_loop"
    /\ UNCHANGED <<exit_code, events, db, remote, batch, outcome, synced>>
    /\ PassUnchanged

\* lines 166, 170-171
StressCommit ==
    /\ pc = "stress_commit"
    /\ db' = txn
    /\ synced' = [synced EXCEPT !.stress = count]
    /\ batch' = <<>>
    /\ remote' = <<>>
    /\ idx' = 1
    /\ pc' = "close"
    /\ UNCHANGED <<exit_code, events, txn, count, outcome>>
    /\ PassUnchanged

\* ------------------------------------------------------------- end of main
\* lines 197-204: conn.close(), the report, and the return of main (status 0)
CloseAndReport ==
    /\ pc = "close"
    /\ events' = Append(events, "close")
    /\ pc' = "exited"
    /\ exit_code' = 0
    /\ txn' = db
    /\ UNCHANGED <<db, remote, batch, idx, count, outcome, synced>>
    /\ PassUnchanged

\* the scheduler invokes the job again: a new process, the same database
Reinvoke ==
    /\ pc = "exited"
    /\ run < MaxRuns
    /\ run' = run + 1
    /\ ProcessStart
    /\ txn' = db
    /\ UNCHANGED <<db, feed>>

Next ==
    \/ MainValidate
    \/ SetupGarth
    \/ GetDbConnection
    \/ ActivitiesFetch
    \/ ActivitiesRecord
    \/ ActivitiesCommit
    \/ SleepFetch
    \/ SleepRecord
    \/ SleepCommit
    \/ StressFetch
    \/ StressRecord
    \/ StressCommit
    \/ CloseAndReport
    \/ Reinvoke

Spec == Init /\ [][Next]_vars

\* ------------------------------------------------------------- the mapper alone
\* The activities loop on one fetched running record, drawn from every
\* combination of the distance, duration and counter inputs below.
DistanceInputs ==
    {Absent, Null, Num(0, 0), Num(4, 0), Num(5, 0), Num(15, 0), Num(25, 0),
     Num(70, 0), Num(1005, 0), Num(5234, 5), Num(10000, 0), Num(42195, 0)}

DurationInputs ==
    {Absent, Null, Num(0, 0), Num(7, 0), Num(21, 9), Num(59, 9),
     Num(1570, 3), Num(3000, 0), Num(12600, 0)}

CounterInputs ==
    {Absent, Null, Num(0, 0), Num(312, 7), Str(<<"n", "/", "a">>)}

MapInputs ==
    {[BaseActivity(1) EXCEPT !.distance = d, !.duration = u, !.calories = c,
                             !.elevationGain = c, !.averageHR = c,
                             !.maxHR = c] :
         d \in DistanceInputs, u \in DurationInputs, c \in CounterInputs}

\* the state of a first invocation that has just fetched one activity
MapInit ==
    /\ OAUTH1_TOKEN = "value"
    /\ OAUTH2_TOKEN = "value"
    /\ DATABASE_URL = "value"
    /\ pc = "activities_loop"
    /\ exit_code = -1
    /\ run = 1
    /\ feed = "activities"
    /\ events = <<"write_tokens", "resume", "connect", "activities">>
    /\ db = EmptyTables
    /\ txn = EmptyTables
    /\ remote = <<>>
    /\ \E act \in MapInputs : batch = <<act>>
    /\ idx = 1
    /\ count = 0
    /\ outcome = [NoOutcome EXCEPT !.activities = "ok"]
    /\ synced = NoCounts

MapNext ==
    \/ ActivitiesRecord
    \/ ActivitiesCommit

MapSpec == MapInit /\ [][MapNext]_vars

\* ------------------------------------------------------------- claims
Range(f) == {f[i] : i \in DOMAIN f}
Ids(tbl) == {r.id : r \in tbl}
Dates(tbl) == {r.date : r \in tbl}

C1_KeysUnique ==
    \A t \in {db, txn} :
        /\ \A r1 \in t.activities, r2 \in t.activities :
               r1.id = r2.id => r1 = r2
        /\ \A r1 \in t.sleep, r2 \in t.sleep : r1.date = r2.date => r1 = r2
        /\ \A r1 \in t.stress, r2 \in t.stress : r1.date = r2.date => r1 = r2

C1_RowsStep ==
    /\ Ids(db.activities) \subseteq Ids(db'.activities)
    /\ Dates(db.sleep) \subseteq Dates(db'.sleep)
    /\ Dates(db.stress) \subseteq Dates(db'.stress)
    /\ (pc = "activities_loop" /\ count' = count + 1
            /\ batch[idx].activityId.n \in Ids(txn.activities))
           => Cardinality(txn'.activities) = Cardinality(txn.activities)
    /\ (pc = "sleep_loop" /\ count' = count + 1
            /\ Strftime(batch[idx].calendar_date.d) \in Dates(txn.sleep))
           => Cardinality(txn'.sleep) = Cardinality(txn.sleep)
    /\ (pc = "stress_loop" /\ count' = count + 1
            /\ Strftime(batch[idx].calendar_date.d) \in Dates(txn.stress))
           => Cardinality(txn'.stress) = Cardinality(txn.stress)

\* C1: after any sequence of invocations, whatever lists were fetched, the
\* activities table holds at most one row per activity id and the sleep and
\* stress tables at most one row per calendar date; an upsert for a key that
\* already exists leaves the row count as it was, and no step of any
\* invocation removes the row of a committed key.
C1_OneRowPerKey == [](C1_KeysUnique) /\ [][C1_RowsStep]_vars

\* an activity id fetched twice, in a table of two rows: the second upsert
\* updated the row of the first
C1_Witness ==
    /\ Cardinality(db.activities) = 2
    /\ \E r \in db.activities : r.updated_at = "now"
    /\ run = 2

C5_ExactlyRunning(act) ==
    /\ act.activityType.t = "map"
    /\ act.activityType.typeKey.t = "str"
    /\ act.activityType.typeKey.s = <<"r", "u", "n", "n", "i", "n", "g">>

\* C5: for every fetched batch of activity records, a loop iteration on a
\* record whose activityType.typeKey is not exactly the string "running"
\* (another key, another case, no key, no activityType) produces no row,
\* changes no row and does not increase the pass's count.
C5_OnlyRunningUpserted ==
    [][(pc = "activities_loop" /\ ~C5_ExactlyRunning(batch[idx]))
           => /\ txn'.activities \subseteq (txn.activities \cup db.activities)
              /\ db' = db
              /\ count' = count]_vars

\* a cycling record carrying the id and other values of a row just upserted
\* has been passed over
C5_Witness ==
    /\ pc = "activities_commit"
    /\ Len(batch) = 2
    /\ batch[1] = BaseActivity(1)
    /\ batch[2].activityId = Id(1)
    /\ batch[2].activityType.t = "map"
    /\ batch[2].activityType.typeKey.t = "str"
    /\ batch[2].activityType.typeKey.s # <<"r", "u", "n", "n", "i", "n", "g">>
    /\ count = 1
    /\ txn.activities = {MapActivity(BaseActivity(1))}

C9_Missing ==
    \/ OAUTH1_TOKEN \in {"unset", "empty"}
    \/ OAUTH2_TOKEN \in {"unset", "empty"}
    \/ DATABASE_URL \in {"unset", "empty"}

\* C9: if an OAuth token variable or the database URL is unset or empty, the
\* invocation performs no token-file write, authentication, connection or
\* pass and ends with exit code 1; exit code 0 is reached only after the
\* token write, the authentication, the connection, the three passes and the
\* close have each been performed, in this order.
C9_ExitCodes ==
    /\ C9_Missing => /\ events = <<>>
                     /\ pc \in {"main", "exited"}
                     /\ pc = "exited" => exit_code = 1
    /\ exit_code = 0 =>
           events = <<"write_tokens", "resume", "connect", "activities",
                      "sleep", "stress", "close">>

\* both tokens set and an empty database URL: the invocation has ended
C9_Witness ==
    /\ pc = "exited"
    /\ OAUTH1_TOKEN = "value"
    /\ OAUTH2_TOKEN = "value"
    /\ DATABASE_URL = "empty"
    /\ exit_code = 1

\* the non-key columns of the activities table
C2_Columns ==
    {"source", "name", "activity_type", "date", "distance", "duration",
     "pace", "calories", "elevation", "avg_hr", "max_hr"}

\* C2: when the upsert of a mapped activity record meets a row with the same
\* id, every non-key column of the stored row equals the value mapped from
\* the newly fetched record afterwards, the date included.
C2_AllColumnsOverwritten ==
    [][(/\ pc = "activities_loop"
        /\ count' = count + 1
        /\ batch[idx].activityId.n \in Ids(txn.activities))
           => \E r \in txn'.activities :
                  /\ r.id = batch[idx].activityId.n
                  /\ \A c \in C2_Columns : r[c] = MapActivity(batch[idx])[c]]_vars

C3_Malformed(act) ==
    \/ act.activityType.t \in {"null", "str"}
    \/ act.activityId.t = "absent"
    \/ \E f \in {"distance", "duration", "calories", "elevationGain",
                 "averageHR", "maxHR"} : act[f].t \in {"null", "str"}

C3_WellFormedRunning(act) == ~C3_Malformed(act) /\ C5_ExactlyRunning(act)

\* C3: in the activities pass, once the loop over the fetched batch is over
\* (the pass is about to commit, or the process has ended inside the pass),
\* every well-formed running record that follows a malformed record in the
\* batch has been upserted: a bad record is skipped and aborts nothing.
C3_BadRecordOnlySkipped ==
    (/\ outcome.activities = "ok"
     /\ \/ pc = "activities_commit"
        \/ pc = "exited" /\ events[Len(events)] = "activities")
        => \A i \in 1..Len(batch), j \in 1..Len(batch) :
               (j < i /\ C3_Malformed(batch[j]) /\ C3_WellFormedRunning(batch[i]))
                   => batch[i].activityId.n \in Ids(txn.activities)

\* C4: once the connection is open the three passes run in order whatever
\* fails inside a pass: an invocation that connected and has ended ran the
\* activities pass, then the sleep pass, then the stress pass.
C4_AllPassesRun ==
    (pc = "exited" /\ "connect" \in Range(events))
        => /\ Len(events) >= 6
           /\ SubSeq(events, 3, 6) = <<"connect", "activities", "sleep", "stress">>

C6_Suffix == <<"/", "k", "m">>

C6_TwoDigits(n) == <<DigitChars[(n \div 10) + 1], DigitChars[(n % 10) + 1]>>

\* C6 as stated: the minutes part is floor(duration / distance) and the
\* seconds part (duration / distance) mod 60, zero-padded.
C6_MinutesAreTheQuotient ==
    \A r \in txn.activities :
        r.distance > 0 =>
            r.pace = Digits(PaceSec(r.duration, r.distance)) \o <<":">>
                         \o C6_TwoDigits(PaceSec(r.duration, r.distance) % 60)
                         \o C6_Suffix

\* C6, amended: for every stored running activity whose km distance (metres /
\* 1000 rounded to 2 decimals) is > 0, with p the floating-point quotient
\* duration / distance, the pace is m ":" ss "/km" where m and ss are the
\* numbers with 60 * m + ss = floor(p) and ss < 60, m written without
\* padding and ss with exactly two digits.
C6_PaceIsMinutesAndSeconds ==
    \A r \in txn.activities :
        r.distance > 0 =>
            \E ss \in 0..59 :
                \E m \in {(PaceSec(r.duration, r.distance) - ss) \div 60} :
                    /\ 60 * m + ss = PaceSec(r.duration, r.distance)
                    /\ r.pace = Digits(m) \o <<":">> \o C6_TwoDigits(ss)
                                    \o C6_Suffix

\* 10.0 km in 3000 s is stored as "5:00/km"
C6_Witness ==
    \E r \in txn.activities :
        /\ r.distance = 1000
        /\ r.duration = 3000
        /\ r.pace = <<"5", ":", "0", "0", "/", "k", "m">>

C7_Numeric ==
    [distance |-> "distance", duration |-> "duration",
     calories |-> "calories", elevationGain |-> "elevation",
     averageHR |-> "avg_hr", maxHR |-> "max_hr"]

\* C7: a running record that has its id and whose numeric fields are each a
\* number, absent or null is upserted, and (unless a later record of the
\* batch carries the same id) its row holds 0 in the column of every absent
\* or null numeric field.
C7_NullNumericIsZero ==
    pc \in {"activities_loop", "activities_commit"} =>
        \A i \in 1..(idx - 1) :
            (/\ C5_ExactlyRunning(batch[i])
             /\ batch[i].activityId.t = "num"
             /\ \A f \in DOMAIN C7_Numeric :
                    batch[i][f].t \in {"absent", "null", "num"})
                => \E r \in txn.activities :
                       /\ r.id = batch[i].activityId.n
                       /\ (\A k \in (i + 1)..(idx - 1) :
                               batch[k].activityId # batch[i].activityId)
                              => \A f \in DOMAIN C7_Numeric :
                                     batch[i][f].t \in {"absent", "null"}
                                         => r[C7_Numeric[f]] = 0

C8_WellFormedDays(days) ==
    {i \in 1..Len(days) : days[i].calendar_date.t = "date"}

C10_ClosedOnEveryExit ==
    pc = "exited" =>
        /\ Cardinality({i \in DOMAIN events : events[i] = "connect"}) <= 1
        /\ "connect" \in Range(events) =>
               Cardinality({i \in DOMAIN events : events[i] = "close"}) = 1

====
